---- MODULE Spec2Model ----
(***************************************************************************)
(* Marketplace data model of the farmers/buyers application: the tables of *)
(* the migration, their constraints and row-level policies, and the client *)
(* handlers that write to them (OrderManager.updateOrderStatus,            *)
(* BuyerMarketplace.toggleFavorite, FarmerSetup.handleSubmit,              *)
(* MessagingPanel.sendMessage and loadMessages).  Every await of a handler *)
(* is one step of the model, so requests of different handlers interleave. *)
(***************************************************************************)
EXTENDS Integers, Sequences, FiniteSets, TLC

(* ------------------------------ bounds --------------------------------- *)
\* rows the orders table may hold
MaxOrders == 1
\* invocations of updateOrderStatus over a behaviour
MaxCalls == 2
\* rows the order_items table may hold
MaxItems == 2
\* largest amount (price, subtotal, total) a request may carry
MaxAmount == 2
\* rows the reviews table may hold
MaxReviews == 2
\* rows the favorites table may hold
MaxFavorites == 2
\* rows requests sent directly to the store may add to order_events
MaxEvents == 2
\* rows the messages table may hold
MaxMessages == 2
\* invocations of submitReview over a behaviour
MaxSubmits == 2
\* largest quantity of a cart entry
MaxQuantity == 3
\* invocations of toggleFavorite over a behaviour
MaxToggles == 2

(* ------------------------------ domains -------------------------------- *)
Users == {"u1", "u2", "u3"}
Anon == "anon"
Callers == Users \cup {Anon}
FarmerIds == {"f1", "f2"}
ProductIds == {"p1", "p2"}
Null == "null"
\* the null of reviews.order_id
NoOrder == 0
OrderIds == 1..MaxOrders
\* the order ids a request may name: the last one is never stored
OrderRefs == 1..(MaxOrders + 1)
ItemIds == 1..MaxItems
ReviewIds == 1..MaxReviews
FavoriteIds == 1..MaxFavorites
MessageIds == 1..MaxMessages

\* orders.status CHECK
Statuses == {"pending", "confirmed", "ready", "completed", "cancelled"}
\* the status buttons of OrderManager, in their order
StatusButtons == {"pending", "confirmed", "ready", "completed"}
Terminal == {"completed", "cancelled"}

VARIABLES
  profiles,        \* table profiles: id -> [user_type]
  farmer_profiles, \* table farmer_profiles: id -> [user_id]
  products,        \* table products: id -> [farmer_id, price_per_unit, is_available]
  orders,          \* table orders: id -> [buyer_id, farmer_id, status, total_amount]
  order_items,     \* table order_items: id -> [order_id, product_id, quantity, price_per_unit, subtotal]
  reviews,         \* table reviews: id -> [farmer_id, buyer_id, order_id, rating]
  favorites,       \* table favorites: id -> [buyer_id, farmer_id]
  messages,        \* table messages: id -> [sender_id, recipient_id, content, is_read]
  order_events,    \* table order_events, in insertion order
  notifications,   \* table notifications, in insertion order
  calls,           \* invocations of updateOrderStatus, in the order they started
  shown,           \* OrderManager's orders prop of each farmer session: order id -> status
  toggles,         \* invocations of toggleFavorite, in the order they started
  favSet,          \* BuyerMarketplace's favorites state of each buyer session
  submits,         \* invocations of FarmerProfileView.submitReview, in the order they started
  cart,            \* BuyerMarketplace's cart state of each buyer session
  last             \* the last request sent to the store and its outcome

vars == <<profiles, farmer_profiles, products, messages, orders, order_items, reviews, favorites,
          order_events, notifications, calls, shown, toggles, favSet, last, submits, cart>>

NoRequest == [op |-> "none", caller |-> Anon, target |-> 0, result |-> "none"]

(* ------------------------- row-level policies -------------------------- *)
\* TO authenticated
Authenticated(uid) == uid \in Users

\* EXISTS (SELECT 1 FROM farmer_profiles WHERE id = fid AND user_id = auth.uid())
OwnsFarmer(uid, fid) ==
  /\ fid \in DOMAIN farmer_profiles
  /\ farmer_profiles[fid].user_id = uid

\* "Users can insert their own profile"
ProfilesInsertCheck(uid, id) ==
  /\ Authenticated(uid)
  /\ uid = id

\* "Users can update their own profile", USING
ProfilesUpdateUsing(uid, id) ==
  /\ Authenticated(uid)
  /\ uid = id

\* "Users can update their own profile", WITH CHECK
ProfilesUpdateCheck(uid, id) ==
  /\ Authenticated(uid)
  /\ uid = id

\* column constraints and foreign keys of profiles: id references auth.users
ProfilesConstraints(id, row) ==
  /\ id \in Users
  /\ row.user_type \in {"farmer", "buyer"}

\* "Farmers can insert their own profile"
FarmerProfilesInsertCheck(uid, row) ==
  /\ Authenticated(uid)
  /\ \E u \in DOMAIN profiles :
       /\ u = uid
       /\ profiles[u].user_type = "farmer"
       /\ u = row.user_id

\* "Farmers can update their own profile", USING
FarmerProfilesUpdateUsing(uid, row) ==
  /\ Authenticated(uid)
  /\ \E u \in DOMAIN profiles : u = uid /\ u = row.user_id

\* "Farmers can update their own profile", WITH CHECK
FarmerProfilesUpdateCheck(uid, row) ==
  /\ Authenticated(uid)
  /\ \E u \in DOMAIN profiles : u = uid /\ u = row.user_id

\* faulty variant of the column definition: user_id without UNIQUE
FarmerProfilesNotUnique(id, row) == TRUE

\* user_id ... UNIQUE, for the row stored under id
FarmerProfilesUnique(id, row) ==
  \A f \in DOMAIN farmer_profiles \ {id} : farmer_profiles[f].user_id # row.user_id

\* column constraints and foreign keys of farmer_profiles
FarmerProfilesConstraints(id, row) ==
  /\ row.user_id \in DOMAIN profiles
  /\ FarmerProfilesUnique(id, row)

\* "Users can view their own orders"
OrdersSelectUsing(uid, row) ==
  /\ Authenticated(uid)
  /\ (uid = row.buyer_id \/ OwnsFarmer(uid, row.farmer_id))

\* "Buyers can create orders"
OrdersInsertCheck(uid, row) ==
  /\ Authenticated(uid)
  /\ uid = row.buyer_id

\* faulty variant of the USING clause: the join on orders.farmer_id is left out
AnyFarmerMayUpdate(uid, row) ==
  /\ Authenticated(uid)
  /\ (uid = row.buyer_id \/ \E f \in DOMAIN farmer_profiles : farmer_profiles[f].user_id = uid)

\* "Users can update their relevant orders", USING
OrdersUpdateUsing(uid, row) ==
  /\ Authenticated(uid)
  /\ (uid = row.buyer_id \/ OwnsFarmer(uid, row.farmer_id))

\* "Users can update their relevant orders", WITH CHECK
OrdersUpdateCheck(uid, row) ==
  /\ Authenticated(uid)
  /\ (uid = row.buyer_id \/ OwnsFarmer(uid, row.farmer_id))

\* column constraints and foreign keys of orders; status has a CHECK and no NOT NULL
OrdersConstraints(row) ==
  /\ row.buyer_id \in DOMAIN profiles
  /\ row.farmer_id \in DOMAIN farmer_profiles
  /\ row.status \in Statuses \cup {Null}
  /\ row.total_amount >= 0

\* "Farmers can insert their own products"
ProductsInsertCheck(uid, row) ==
  /\ Authenticated(uid)
  /\ OwnsFarmer(uid, row.farmer_id)

\* "Farmers can update their own products", USING
ProductsUpdateUsing(uid, row) ==
  /\ Authenticated(uid)
  /\ OwnsFarmer(uid, row.farmer_id)

\* faulty variant of the WITH CHECK clause: the new farmer_id is not looked at
ProductsUpdateCheckAnyFarm(uid, row) == Authenticated(uid)

\* "Farmers can update their own products", WITH CHECK
ProductsUpdateCheck(uid, row) ==
  /\ Authenticated(uid)
  /\ OwnsFarmer(uid, row.farmer_id)

\* "Farmers can delete their own products"
ProductsDeleteUsing(uid, row) ==
  /\ Authenticated(uid)
  /\ OwnsFarmer(uid, row.farmer_id)

\* column constraints and foreign keys of products
ProductsConstraints(row) ==
  /\ row.farmer_id \in DOMAIN farmer_profiles
  /\ row.price_per_unit >= 0

\* order_items has row level security enabled and no policy FOR UPDATE
OrderItemsUpdateUsing(uid, row) == FALSE

\* order_items has row level security enabled and no policy FOR DELETE
OrderItemsDeleteUsing(uid, row) == FALSE

\* "Buyers can insert order items"
OrderItemsInsertCheck(uid, row) ==
  /\ Authenticated(uid)
  /\ row.order_id \in DOMAIN orders
  /\ orders[row.order_id].buyer_id = uid

\* column constraints and foreign keys of order_items
OrderItemsConstraints(row) ==
  /\ row.order_id \in DOMAIN orders
  /\ row.product_id \in DOMAIN products
  /\ row.quantity > 0
  /\ row.price_per_unit >= 0
  /\ row.subtotal >= 0

\* faulty variant of the insert policy: the status of the order is not looked at
ReviewsInsertCheckAnyStatus(uid, row) ==
  /\ Authenticated(uid)
  /\ uid = row.buyer_id
  /\ \E o \in DOMAIN orders :
       /\ o = row.order_id
       /\ orders[o].buyer_id = uid

\* "Buyers can create reviews for their orders"
ReviewsInsertCheck(uid, row) ==
  /\ Authenticated(uid)
  /\ uid = row.buyer_id
  /\ \E o \in DOMAIN orders :
       /\ o = row.order_id
       /\ orders[o].buyer_id = uid
       /\ orders[o].status = "completed"

\* "Buyers can update their own reviews", USING
ReviewsUpdateUsing(uid, row) ==
  /\ Authenticated(uid)
  /\ uid = row.buyer_id

\* "Buyers can update their own reviews", WITH CHECK
ReviewsUpdateCheck(uid, row) ==
  /\ Authenticated(uid)
  /\ uid = row.buyer_id

\* faulty variant of the constraint: it is enforced for new rows only
ReviewsUniqueOnInsertOnly(id, row) ==
  \A r \in DOMAIN reviews \ {id} :
    ~(/\ id \notin DOMAIN reviews
      /\ row.order_id # NoOrder
      /\ reviews[r].buyer_id = row.buyer_id
      /\ reviews[r].order_id = row.order_id)

\* UNIQUE(buyer_id, order_id) for the row stored under id: a null order_id equals no other
ReviewsUnique(id, row) ==
  \A r \in DOMAIN reviews \ {id} :
    ~(/\ row.order_id # NoOrder
      /\ reviews[r].buyer_id = row.buyer_id
      /\ reviews[r].order_id = row.order_id)

\* column constraints and foreign keys of reviews
ReviewsConstraints(id, row) ==
  /\ row.farmer_id \in DOMAIN farmer_profiles
  /\ row.buyer_id \in DOMAIN profiles
  /\ row.order_id = NoOrder \/ row.order_id \in DOMAIN orders
  /\ row.rating >= 1 /\ row.rating <= 5
  /\ ReviewsUnique(id, row)

\* "Users can view their own messages"
MessagesSelectUsing(uid, row) ==
  /\ Authenticated(uid)
  /\ (uid = row.sender_id \/ uid = row.recipient_id)

\* "Users can send messages"
MessagesInsertCheck(uid, row) ==
  /\ Authenticated(uid)
  /\ uid = row.sender_id

\* "Recipients can update message read status", USING
MessagesUpdateUsing(uid, row) ==
  /\ Authenticated(uid)
  /\ uid = row.recipient_id

\* "Recipients can update message read status", WITH CHECK
MessagesUpdateCheck(uid, row) ==
  /\ Authenticated(uid)
  /\ uid = row.recipient_id

\* column constraints and foreign keys of messages
MessagesConstraints(row) ==
  /\ row.sender_id \in DOMAIN profiles
  /\ row.recipient_id \in DOMAIN profiles
  /\ row.content # Null

\* "Users can view their own favorites"
FavoritesSelectUsing(uid, row) ==
  /\ Authenticated(uid)
  /\ uid = row.buyer_id

\* "Buyers can add favorites"
FavoritesInsertCheck(uid, row) ==
  /\ Authenticated(uid)
  /\ uid = row.buyer_id

\* "Buyers can remove favorites"
FavoritesDeleteUsing(uid, row) ==
  /\ Authenticated(uid)
  /\ uid = row.buyer_id

\* faulty variant of the constraint: it names buyer_id twice
FavoritesUniqueWrongColumn(row) ==
  \A i \in DOMAIN favorites :
    ~(favorites[i].buyer_id = row.buyer_id /\ favorites[i].buyer_id = row.farmer_id)

\* UNIQUE(buyer_id, farmer_id)
FavoritesUnique(row) ==
  \A i \in DOMAIN favorites :
    ~(favorites[i].buyer_id = row.buyer_id /\ favorites[i].farmer_id = row.farmer_id)

\* column constraints and foreign keys of favorites
FavoritesConstraints(row) ==
  /\ row.buyer_id \in DOMAIN profiles
  /\ row.farmer_id \in DOMAIN farmer_profiles
  /\ FavoritesUnique(row)

\* "Users can insert events on their orders"
OrderEventsInsertCheck(uid, row) ==
  /\ Authenticated(uid)
  /\ row.order_id \in DOMAIN orders
  /\ (orders[row.order_id].buyer_id = uid
        \/ OwnsFarmer(uid, orders[row.order_id].farmer_id))

\* faulty variant of the delete rule: the parties of the order may delete its events
OrderEventsDeleteByParty(uid, row) ==
  /\ Authenticated(uid)
  /\ row.order_id \in DOMAIN orders
  /\ (orders[row.order_id].buyer_id = uid
        \/ OwnsFarmer(uid, orders[row.order_id].farmer_id))

\* order_events has row level security enabled and no policy FOR UPDATE
OrderEventsUpdateUsing(uid, row) == FALSE

\* order_events has row level security enabled and no policy FOR DELETE
OrderEventsDeleteUsing(uid, row) == FALSE

\* column constraints and foreign keys of order_events
OrderEventsConstraints(row) ==
  /\ row.order_id \in DOMAIN orders
  /\ row.actor_id \in DOMAIN profiles
  /\ row.event_type \in {"status_change", "note", "location_update"}
  /\ row.status \in Statuses \cup {Null}

\* "System inserts notifications for valid recipients"
NotificationsInsertCheck(uid, row) ==
  /\ Authenticated(uid)
  /\ row.recipient_id # Null

\* column constraints and foreign keys of notifications
NotificationsConstraints(row) ==
  /\ row.recipient_id \in DOMAIN profiles
  /\ row.type \in {"order_created", "order_status_changed", "favorited"}

(* ------------------------------ helpers -------------------------------- *)
\* gen_random_uuid(): an id no row of the table uses
FreshId(ids, used) == CHOOSE i \in ids \ used : \A j \in ids \ used : i <= j

\* UPDATE ... SET: a patch gives the new values of the columns it names
ApplyPatch(row, patch) ==
  [col \in DOMAIN row |-> IF col \in DOMAIN patch THEN patch[col] ELSE row[col]]

StatusPatch(s) == [status |-> s]

\* the farmer profile of a session's user, as loadFarmerData selects it
ProfileOf(uid) == {f \in DOMAIN farmer_profiles : farmer_profiles[f].user_id = uid}

\* loadOrders: the orders of the session's farmer profile that the select policy shows
LoadedOrders(uid) ==
  LET mine == {o \in DOMAIN orders :
                 /\ orders[o].farmer_id \in ProfileOf(uid)
                 /\ OrdersSelectUsing(uid, orders[o])}
  IN  [o \in mine |-> orders[o].status]

(* ----------------------- requests to the store ------------------------- *)
\* SELECT ... FROM orders WHERE id = o: "none" when no row comes back
SelectOrderResult(uid, o) ==
  IF o \in DOMAIN orders /\ OrdersSelectUsing(uid, orders[o]) THEN "ok" ELSE "none"

SelectOrder(uid, o) ==
  /\ last' = [op |-> "select_order", caller |-> uid, target |-> o,
              result |-> SelectOrderResult(uid, o)]
  /\ UNCHANGED <<profiles, farmer_profiles, products, messages, orders, order_items, reviews, favorites,
                 order_events, notifications, calls, shown, toggles, favSet, submits, cart>>

\* faulty variant of the update: a row the USING clause hides is reported as an error
UpdateOrderResultDenied(uid, o, patch) ==
  IF o \notin DOMAIN orders THEN "none"
  ELSE IF ~OrdersUpdateUsing(uid, orders[o]) THEN "error"
  ELSE IF /\ OrdersConstraints(ApplyPatch(orders[o], patch))
          /\ OrdersUpdateCheck(uid, ApplyPatch(orders[o], patch))
       THEN "ok" ELSE "error"

\* UPDATE orders SET ... WHERE id = o: "none" when the USING clause hides the row,
\* "error" when WITH CHECK or a constraint rejects the new row
UpdateOrderResult(uid, o, patch) ==
  IF o \notin DOMAIN orders \/ ~OrdersUpdateUsing(uid, orders[o]) THEN "none"
  ELSE IF /\ OrdersConstraints(ApplyPatch(orders[o], patch))
          /\ OrdersUpdateCheck(uid, ApplyPatch(orders[o], patch))
       THEN "ok" ELSE "error"

OrdersAfterUpdate(uid, o, patch) ==
  IF UpdateOrderResult(uid, o, patch) = "ok"
  THEN [orders EXCEPT ![o] = ApplyPatch(orders[o], patch)]
  ELSE orders

\* INSERT INTO orders; a full table stands for no further order being placed
InsertOrderResult(uid, row) ==
  IF /\ DOMAIN orders # OrderIds
     /\ OrdersConstraints(row)
     /\ OrdersInsertCheck(uid, row)
  THEN "ok" ELSE "error"

InsertOrder(uid, row) ==
  /\ DOMAIN orders # OrderIds
  /\ orders' = IF InsertOrderResult(uid, row) = "ok"
               THEN [o \in DOMAIN orders \cup {FreshId(OrderIds, DOMAIN orders)} |->
                       IF o \in DOMAIN orders THEN orders[o] ELSE row]
               ELSE orders
  /\ last' = [op |-> "insert_order", caller |-> uid,
              target |-> FreshId(OrderIds, DOMAIN orders),
              result |-> InsertOrderResult(uid, row)]
  /\ UNCHANGED <<profiles, farmer_profiles, products, messages, order_items, reviews, favorites,
                 order_events, notifications, calls, shown, toggles, favSet, submits, cart>>

\* an UPDATE of orders sent directly to the store
UpdateOrder(uid, o, patch) ==
  /\ orders' = OrdersAfterUpdate(uid, o, patch)
  /\ last' = [op |-> "update_order", caller |-> uid, target |-> o,
              result |-> UpdateOrderResult(uid, o, patch)]
  /\ UNCHANGED <<profiles, farmer_profiles, products, messages, order_items, reviews, favorites,
                 order_events, notifications, calls, shown, toggles, favSet, submits, cart>>

\* INSERT INTO order_items
InsertOrderItemResult(uid, row) ==
  IF /\ OrderItemsConstraints(row)
     /\ OrderItemsInsertCheck(uid, row)
  THEN "ok" ELSE "error"

InsertOrderItem(uid, row) ==
  /\ DOMAIN order_items # ItemIds
  /\ order_items' = IF InsertOrderItemResult(uid, row) = "ok"
                    THEN [i \in DOMAIN order_items \cup {FreshId(ItemIds, DOMAIN order_items)} |->
                            IF i \in DOMAIN order_items THEN order_items[i] ELSE row]
                    ELSE order_items
  /\ last' = [op |-> "insert_order_item", caller |-> uid,
              target |-> FreshId(ItemIds, DOMAIN order_items),
              result |-> InsertOrderItemResult(uid, row)]
  /\ UNCHANGED <<profiles, farmer_profiles, products, messages, orders, reviews, favorites,
                 order_events, notifications, calls, shown, toggles, favSet, submits, cart>>

\* INSERT INTO reviews
InsertReviewResult(uid, row) ==
  IF /\ ReviewsConstraints(FreshId(ReviewIds, DOMAIN reviews), row)
     /\ ReviewsInsertCheck(uid, row)
  THEN "ok" ELSE "error"

InsertReview(uid, row) ==
  /\ DOMAIN reviews # ReviewIds
  /\ reviews' = IF InsertReviewResult(uid, row) = "ok"
                THEN [r \in DOMAIN reviews \cup {FreshId(ReviewIds, DOMAIN reviews)} |->
                        IF r \in DOMAIN reviews THEN reviews[r] ELSE row]
                ELSE reviews
  /\ last' = [op |-> "insert_review", caller |-> uid, target |-> row.order_id,
              result |-> InsertReviewResult(uid, row)]
  /\ UNCHANGED <<profiles, farmer_profiles, products, messages, orders, order_items, favorites,
                 order_events, notifications, calls, shown, toggles, favSet, submits, cart>>

\* UPDATE reviews SET ... WHERE id = r
UpdateReviewResult(uid, r, patch) ==
  IF r \notin DOMAIN reviews \/ ~ReviewsUpdateUsing(uid, reviews[r]) THEN "none"
  ELSE IF /\ ReviewsConstraints(r, ApplyPatch(reviews[r], patch))
          /\ ReviewsUpdateCheck(uid, ApplyPatch(reviews[r], patch))
       THEN "ok" ELSE "error"

UpdateReview(uid, r, patch) ==
  /\ reviews' = IF UpdateReviewResult(uid, r, patch) = "ok"
                THEN [reviews EXCEPT ![r] = ApplyPatch(reviews[r], patch)]
                ELSE reviews
  /\ last' = [op |-> "update_review", caller |-> uid, target |-> r,
              result |-> UpdateReviewResult(uid, r, patch)]
  /\ UNCHANGED <<profiles, farmer_profiles, products, messages, orders, order_items, favorites,
                 order_events, notifications, calls, shown, toggles, favSet, submits, cart>>

\* the rows of a table stored under the ids
Restrict(table, ids) == [id \in ids |-> table[id]]

\* DELETE of the account u from auth.users, through the ON DELETE clauses of the schema
DeleteAccount(u) ==
  /\ u \in DOMAIN profiles
  /\ LET farms == {f \in DOMAIN farmer_profiles : farmer_profiles[f].user_id = u}
         prods == {p \in DOMAIN products : products[p].farmer_id \in farms}
         ords == {o \in DOMAIN orders :
                    orders[o].buyer_id = u \/ orders[o].farmer_id \in farms}
         KeepEvent(row) == row.order_id \notin ords /\ row.actor_id # u
         KeepNotification(row) == row.recipient_id # u
         left == {r \in DOMAIN reviews :
                    reviews[r].buyer_id # u /\ reviews[r].farmer_id \notin farms}
     IN  /\ profiles' = Restrict(profiles, DOMAIN profiles \ {u})
         /\ farmer_profiles' = Restrict(farmer_profiles, DOMAIN farmer_profiles \ farms)
         /\ products' = Restrict(products, DOMAIN products \ prods)
         /\ orders' = Restrict(orders, DOMAIN orders \ ords)
         /\ order_items' =
              Restrict(order_items,
                       {i \in DOMAIN order_items :
                          /\ order_items[i].order_id \notin ords
                          /\ order_items[i].product_id \notin prods})
         /\ reviews' = [r \in left |->
                          IF reviews[r].order_id \in ords
                          THEN [reviews[r] EXCEPT !.order_id = NoOrder]
                          ELSE reviews[r]]
         /\ favorites' =
              Restrict(favorites,
                       {i \in DOMAIN favorites :
                          /\ favorites[i].buyer_id # u
                          /\ favorites[i].farmer_id \notin farms})
         /\ messages' =
              Restrict(messages,
                       {m \in DOMAIN messages :
                          messages[m].sender_id # u /\ messages[m].recipient_id # u})
         /\ order_events' = SelectSeq(order_events, KeepEvent)
         /\ notifications' = SelectSeq(notifications, KeepNotification)
  /\ last' = [op |-> "delete_account", caller |-> u, target |-> 0, result |-> "ok"]
  /\ UNCHANGED <<calls, shown, toggles, favSet, submits, cart>>

(* ------------- requests on profiles and farmer_profiles ---------------- *)
\* INSERT INTO profiles; the primary key refuses a second row for an id
InsertProfileResult(uid, id, row) ==
  IF /\ id \notin DOMAIN profiles
     /\ ProfilesConstraints(id, row)
     /\ ProfilesInsertCheck(uid, id)
  THEN "ok" ELSE "error"

InsertProfile(uid, id, row) ==
  /\ profiles' = IF InsertProfileResult(uid, id, row) = "ok"
                 THEN [u \in DOMAIN profiles \cup {id} |->
                         IF u \in DOMAIN profiles THEN profiles[u] ELSE row]
                 ELSE profiles
  /\ last' = [op |-> "insert_profile", caller |-> uid, target |-> 0,
              result |-> InsertProfileResult(uid, id, row)]
  /\ UNCHANGED <<farmer_profiles, products, messages, orders, order_items, reviews, favorites,
                 order_events, notifications, calls, shown, toggles, favSet, submits, cart>>

\* UPDATE profiles SET id = newId, ... WHERE id = id; newId is id when the SET list
\* leaves the key alone.  A referenced key cannot move (ON UPDATE NO ACTION).
UpdateProfileResult(uid, id, newId, row) ==
  IF id \notin DOMAIN profiles \/ ~ProfilesUpdateUsing(uid, id) THEN "none"
  ELSE IF /\ ProfilesConstraints(newId, row)
          /\ ProfilesUpdateCheck(uid, newId)
          /\ newId = id \/ newId \notin DOMAIN profiles
          /\ newId = id \/ \A f \in DOMAIN farmer_profiles : farmer_profiles[f].user_id # id
       THEN "ok" ELSE "error"

UpdateProfile(uid, id, newId, patch) ==
  /\ profiles' =
       IF id \in DOMAIN profiles
            /\ UpdateProfileResult(uid, id, newId, ApplyPatch(profiles[id], patch)) = "ok"
       THEN [u \in (DOMAIN profiles \ {id}) \cup {newId} |->
               IF u = newId THEN ApplyPatch(profiles[id], patch) ELSE profiles[u]]
       ELSE profiles
  /\ last' = [op |-> "update_profile", caller |-> uid, target |-> 0,
              result |-> IF id \in DOMAIN profiles
                         THEN UpdateProfileResult(uid, id, newId, ApplyPatch(profiles[id], patch))
                         ELSE "none"]
  /\ UNCHANGED <<farmer_profiles, products, messages, orders, order_items, reviews, favorites,
                 order_events, notifications, calls, shown, toggles, favSet, submits, cart>>

\* gen_random_uuid() for farmer_profiles.id
FreshFarmerId == CHOOSE f \in FarmerIds \ DOMAIN farmer_profiles : TRUE

\* INSERT INTO farmer_profiles
InsertFarmerProfileResult(uid, row) ==
  IF /\ FarmerProfilesConstraints(FreshFarmerId, row)
     /\ FarmerProfilesInsertCheck(uid, row)
  THEN "ok" ELSE "error"

InsertFarmerProfile(uid, row) ==
  /\ DOMAIN farmer_profiles # FarmerIds
  /\ farmer_profiles' =
       IF InsertFarmerProfileResult(uid, row) = "ok"
       THEN [f \in DOMAIN farmer_profiles \cup {FreshFarmerId} |->
               IF f \in DOMAIN farmer_profiles THEN farmer_profiles[f] ELSE row]
       ELSE farmer_profiles
  /\ last' = [op |-> "insert_farmer_profile", caller |-> uid, target |-> 0,
              result |-> InsertFarmerProfileResult(uid, row)]
  /\ UNCHANGED <<profiles, products, messages, orders, order_items, reviews, favorites,
                 order_events, notifications, calls, shown, toggles, favSet, submits, cart>>

\* UPDATE farmer_profiles SET ... WHERE id = f
UpdateFarmerProfileResult(uid, f, patch) ==
  IF f \notin DOMAIN farmer_profiles \/ ~FarmerProfilesUpdateUsing(uid, farmer_profiles[f])
  THEN "none"
  ELSE IF /\ FarmerProfilesConstraints(f, ApplyPatch(farmer_profiles[f], patch))
          /\ FarmerProfilesUpdateCheck(uid, ApplyPatch(farmer_profiles[f], patch))
       THEN "ok" ELSE "error"

UpdateFarmerProfile(uid, f, patch) ==
  /\ farmer_profiles' =
       IF UpdateFarmerProfileResult(uid, f, patch) = "ok"
       THEN [farmer_profiles EXCEPT ![f] = ApplyPatch(farmer_profiles[f], patch)]
       ELSE farmer_profiles
  /\ last' = [op |-> "update_farmer_profile", caller |-> uid, target |-> 0,
              result |-> UpdateFarmerProfileResult(uid, f, patch)]
  /\ UNCHANGED <<profiles, products, messages, orders, order_items, reviews, favorites,
                 order_events, notifications, calls, shown, toggles, favSet, submits, cart>>

\* FarmerSetup.handleSubmit: one insert for the signed-in user; the form is shown on the
\* needsFarmerSetup flag a session computed when it loaded
FarmerSetupSubmit(uid) ==
  /\ Authenticated(uid)
  /\ InsertFarmerProfile(uid, [user_id |-> uid])

(* --------------- requests on products and order_items ------------------ *)
\* gen_random_uuid() for products.id
FreshProductId == CHOOSE p \in ProductIds \ DOMAIN products : TRUE

\* INSERT INTO products
InsertProductResult(uid, row) ==
  IF /\ ProductsConstraints(row)
     /\ ProductsInsertCheck(uid, row)
  THEN "ok" ELSE "error"

InsertProduct(uid, row) ==
  /\ DOMAIN products # ProductIds
  /\ products' = IF InsertProductResult(uid, row) = "ok"
                 THEN [p \in DOMAIN products \cup {FreshProductId} |->
                         IF p \in DOMAIN products THEN products[p] ELSE row]
                 ELSE products
  /\ last' = [op |-> "insert_product", caller |-> uid, target |-> FreshProductId,
              result |-> InsertProductResult(uid, row)]
  /\ UNCHANGED order_items
  /\ UNCHANGED <<profiles, farmer_profiles, messages, orders, reviews, favorites,
                 order_events, notifications, calls, shown, toggles, favSet, submits, cart>>

\* UPDATE products SET ... WHERE id = p
UpdateProductResult(uid, p, patch) ==
  IF p \notin DOMAIN products \/ ~ProductsUpdateUsing(uid, products[p]) THEN "none"
  ELSE IF /\ ProductsConstraints(ApplyPatch(products[p], patch))
          /\ ProductsUpdateCheck(uid, ApplyPatch(products[p], patch))
       THEN "ok" ELSE "error"

UpdateProduct(uid, p, patch) ==
  /\ products' = IF UpdateProductResult(uid, p, patch) = "ok"
                 THEN [products EXCEPT ![p] = ApplyPatch(products[p], patch)]
                 ELSE products
  /\ last' = [op |-> "update_product", caller |-> uid, target |-> p,
              result |-> UpdateProductResult(uid, p, patch)]
  /\ UNCHANGED order_items
  /\ UNCHANGED <<profiles, farmer_profiles, messages, orders, reviews, favorites,
                 order_events, notifications, calls, shown, toggles, favSet, submits, cart>>

\* DELETE FROM products WHERE id = p; order_items.product_id is ON DELETE CASCADE
DeleteProductResult(uid, p) ==
  IF p \in DOMAIN products /\ ProductsDeleteUsing(uid, products[p]) THEN "ok" ELSE "none"

DeleteProduct(uid, p) ==
  /\ products' = IF DeleteProductResult(uid, p) = "ok"
                 THEN Restrict(products, DOMAIN products \ {p})
                 ELSE products
  /\ order_items' = IF DeleteProductResult(uid, p) = "ok"
                    THEN Restrict(order_items,
                                  {i \in DOMAIN order_items : order_items[i].product_id # p})
                    ELSE order_items
  /\ last' = [op |-> "delete_product", caller |-> uid, target |-> p,
              result |-> DeleteProductResult(uid, p)]
  /\ UNCHANGED <<profiles, farmer_profiles, messages, orders, reviews, favorites,
                 order_events, notifications, calls, shown, toggles, favSet, submits, cart>>

\* ProductManager.handleSubmit without editingProduct: insert({ ...formData, farmer_id: farmerId })
SubmitNewProduct(uid, f, price) ==
  /\ f \in ProfileOf(uid)
  /\ InsertProduct(uid, [farmer_id |-> f, price_per_unit |-> price, is_available |-> TRUE])

\* ProductManager.handleSubmit with editingProduct: update(formData).eq('id', editingProduct.id);
\* formData has no farmer_id, and the product comes from the products prop
SubmitEditedProduct(uid, p, price) ==
  /\ ProfileOf(uid) # {}
  /\ UpdateProduct(uid, p, [price_per_unit |-> price])

\* ProductManager.handleDelete after confirm()
HandleDelete(uid, p) ==
  /\ ProfileOf(uid) # {}
  /\ DeleteProduct(uid, p)

\* ProductManager.toggleAvailability: update({ is_available: !product.is_available }) with
\* the value the products prop shows
ToggleAvailability(uid, p, seen) ==
  /\ ProfileOf(uid) # {}
  /\ UpdateProduct(uid, p, [is_available |-> ~seen])

\* UPDATE order_items SET ... WHERE id = i
UpdateOrderItemResult(uid, i, patch) ==
  IF i \notin DOMAIN order_items \/ ~OrderItemsUpdateUsing(uid, order_items[i]) THEN "none"
  ELSE IF OrderItemsConstraints(ApplyPatch(order_items[i], patch)) THEN "ok" ELSE "error"

UpdateOrderItem(uid, i, patch) ==
  /\ order_items' = IF UpdateOrderItemResult(uid, i, patch) = "ok"
                    THEN [order_items EXCEPT ![i] = ApplyPatch(order_items[i], patch)]
                    ELSE order_items
  /\ last' = [op |-> "update_order_item", caller |-> uid, target |-> i,
              result |-> UpdateOrderItemResult(uid, i, patch)]
  /\ UNCHANGED <<profiles, farmer_profiles, products, messages, orders, reviews, favorites,
                 order_events, notifications, calls, shown, toggles, favSet, submits, cart>>

\* DELETE FROM order_items WHERE id = i
DeleteOrderItemResult(uid, i) ==
  IF i \in DOMAIN order_items /\ OrderItemsDeleteUsing(uid, order_items[i])
  THEN "ok" ELSE "none"

DeleteOrderItem(uid, i) ==
  /\ order_items' = IF DeleteOrderItemResult(uid, i) = "ok"
                    THEN Restrict(order_items, DOMAIN order_items \ {i})
                    ELSE order_items
  /\ last' = [op |-> "delete_order_item", caller |-> uid, target |-> i,
              result |-> DeleteOrderItemResult(uid, i)]
  /\ UNCHANGED <<profiles, farmer_profiles, products, messages, orders, reviews, favorites,
                 order_events, notifications, calls, shown, toggles, favSet, submits, cart>>

(* ------------------------ requests on messages ------------------------ *)
\* INSERT INTO messages; is_read takes its DEFAULT false unless the row carries it
InsertMessageResult(uid, row) ==
  IF /\ MessagesConstraints(row)
     /\ MessagesInsertCheck(uid, row)
  THEN "ok" ELSE "error"

InsertMessage(uid, row) ==
  /\ DOMAIN messages # MessageIds
  /\ messages' = IF InsertMessageResult(uid, row) = "ok"
                 THEN [m \in DOMAIN messages \cup {FreshId(MessageIds, DOMAIN messages)} |->
                         IF m \in DOMAIN messages THEN messages[m] ELSE row]
                 ELSE messages
  /\ last' = [op |-> "insert_message", caller |-> uid,
              target |-> FreshId(MessageIds, DOMAIN messages),
              result |-> InsertMessageResult(uid, row)]
  /\ UNCHANGED <<profiles, farmer_profiles, products, orders, order_items, reviews, favorites,
                 order_events, notifications, calls, shown, toggles, favSet, submits, cart>>

\* UPDATE messages SET ... WHERE id = m
UpdateMessageResult(uid, m, patch) ==
  IF m \notin DOMAIN messages \/ ~MessagesUpdateUsing(uid, messages[m]) THEN "none"
  ELSE IF /\ MessagesConstraints(ApplyPatch(messages[m], patch))
          /\ MessagesUpdateCheck(uid, ApplyPatch(messages[m], patch))
       THEN "ok" ELSE "error"

UpdateMessage(uid, m, patch) ==
  /\ messages' = IF UpdateMessageResult(uid, m, patch) = "ok"
                 THEN [messages EXCEPT ![m] = ApplyPatch(messages[m], patch)]
                 ELSE messages
  /\ last' = [op |-> "update_message", caller |-> uid, target |-> m,
              result |-> UpdateMessageResult(uid, m, patch)]
  /\ UNCHANGED <<profiles, farmer_profiles, products, orders, order_items, reviews, favorites,
                 order_events, notifications, calls, shown, toggles, favSet, submits, cart>>

\* MessagingPanel.sendMessage and FarmerProfileView.sendMessage: the insert of the
\* signed-in user's message; the loadMessages that MessagingPanel runs next is LoadMessages
SendMessage(uid, to, text) ==
  /\ Authenticated(uid)
  /\ text # ""
  /\ InsertMessage(uid, [sender_id |-> uid, recipient_id |-> to, content |-> text,
                         is_read |-> FALSE])

\* MessagingPanel.loadMessages: after its select,
\* update({ is_read: true }).eq('recipient_id', user.id).eq('sender_id', other).eq('is_read', false)
LoadMessages(uid, other) ==
  /\ LET hit == {m \in DOMAIN messages :
                   /\ MessagesUpdateUsing(uid, messages[m])
                   /\ messages[m].recipient_id = uid
                   /\ messages[m].sender_id = other
                   /\ messages[m].is_read = FALSE}
     IN  /\ messages' = [m \in DOMAIN messages |->
                           IF m \in hit
                           THEN ApplyPatch(messages[m], [is_read |-> TRUE])
                           ELSE messages[m]]
         /\ last' = [op |-> "mark_read", caller |-> uid, target |-> 0,
                     result |-> IF hit = {} THEN "none" ELSE "ok"]
  /\ UNCHANGED <<profiles, farmer_profiles, products, orders, order_items, reviews, favorites,
                 order_events, notifications, calls, shown, toggles, favSet, submits, cart>>

(* ---------------------- requests on order_events ---------------------- *)
\* INSERT INTO order_events
InsertOrderEventResult(uid, row) ==
  IF /\ OrderEventsConstraints(row)
     /\ OrderEventsInsertCheck(uid, row)
  THEN "ok" ELSE "error"

InsertOrderEvent(uid, row) ==
  /\ Len(order_events) < MaxEvents
  /\ order_events' = IF InsertOrderEventResult(uid, row) = "ok"
                     THEN Append(order_events, row)
                     ELSE order_events
  /\ last' = [op |-> "insert_event", caller |-> uid, target |-> row.order_id,
              result |-> InsertOrderEventResult(uid, row)]
  /\ UNCHANGED <<profiles, farmer_profiles, products, messages, orders, order_items, reviews, favorites,
                 notifications, calls, shown, toggles, favSet, submits, cart>>

\* UPDATE order_events SET ... for the i-th row
UpdateOrderEventResult(uid, i, patch) ==
  IF i \notin DOMAIN order_events \/ ~OrderEventsUpdateUsing(uid, order_events[i]) THEN "none"
  ELSE IF OrderEventsConstraints(ApplyPatch(order_events[i], patch)) THEN "ok" ELSE "error"

UpdateOrderEvent(uid, i, patch) ==
  /\ order_events' = IF UpdateOrderEventResult(uid, i, patch) = "ok"
                     THEN [order_events EXCEPT ![i] = ApplyPatch(order_events[i], patch)]
                     ELSE order_events
  /\ last' = [op |-> "update_event", caller |-> uid, target |-> i,
              result |-> UpdateOrderEventResult(uid, i, patch)]
  /\ UNCHANGED <<profiles, farmer_profiles, products, messages, orders, order_items, reviews, favorites,
                 notifications, calls, shown, toggles, favSet, submits, cart>>

\* DELETE FROM order_events for the i-th row
DeleteOrderEventResult(uid, i) ==
  IF i \in DOMAIN order_events /\ OrderEventsDeleteUsing(uid, order_events[i])
  THEN "ok" ELSE "none"

DeleteOrderEvent(uid, i) ==
  /\ order_events' = IF DeleteOrderEventResult(uid, i) = "ok"
                     THEN [j \in 1..(Len(order_events) - 1) |->
                             IF j < i THEN order_events[j] ELSE order_events[j + 1]]
                     ELSE order_events
  /\ last' = [op |-> "delete_event", caller |-> uid, target |-> i,
              result |-> DeleteOrderEventResult(uid, i)]
  /\ UNCHANGED <<profiles, farmer_profiles, products, messages, orders, order_items, reviews, favorites,
                 notifications, calls, shown, toggles, favSet, submits, cart>>

(* ------------------------- OrderManager ------------------------------- *)
\* FarmerDashboard.loadOrders
LoadOrders(uid) ==
  /\ ProfileOf(uid) # {}
  /\ shown' = [shown EXCEPT ![uid] = LoadedOrders(uid)]
  /\ shown'[uid] # shown[uid]
  /\ UNCHANGED <<profiles, farmer_profiles, products, messages, orders, order_items, reviews, favorites,
                 order_events, notifications, calls, toggles, favSet, last, submits, cart>>

\* the disabled attribute of the status buttons and of the Cancel button
ButtonEnabled(current, s) ==
  IF s = "cancelled"
  THEN current # "cancelled" /\ current # "completed"
  ELSE s \in StatusButtons /\ current # s

\* onClick of a button of an order card: updateOrderStatus starts
ClickStatus(uid, o, s) ==
  /\ Len(calls) < MaxCalls
  /\ o \in DOMAIN shown[uid]
  /\ ButtonEnabled(shown[uid][o], s)
  /\ calls' = Append(calls, [caller |-> uid, orderId |-> o, status |-> s,
                             pc |-> "update", buyer |-> Null, applied |-> FALSE])
  /\ UNCHANGED <<profiles, farmer_profiles, products, messages, orders, order_items, reviews, favorites,
                 order_events, notifications, shown, toggles, favSet, last, submits, cart>>

\* await supabase.from('orders').update({ status }).eq('id', orderId); its error is dropped
CallUpdate(c, delivered) ==
  /\ c \in DOMAIN calls
  /\ calls[c].pc = "update"
  /\ LET uid == calls[c].caller
         o == calls[c].orderId
         patch == StatusPatch(calls[c].status)
         done == delivered /\ UpdateOrderResult(uid, o, patch) = "ok"
     IN  /\ orders' = IF delivered THEN OrdersAfterUpdate(uid, o, patch) ELSE orders
         /\ calls' = [calls EXCEPT ![c].pc = "select", ![c].applied = done]
  /\ UNCHANGED <<profiles, farmer_profiles, products, messages, order_items, reviews, favorites,
                 order_events, notifications, shown, toggles, favSet, last, submits, cart>>

\* const { data: order } = await ...select('buyer_id, farmer_id').eq('id', orderId).maybeSingle()
CallSelect(c, delivered) ==
  /\ c \in DOMAIN calls
  /\ calls[c].pc = "select"
  /\ LET uid == calls[c].caller
         o == calls[c].orderId
         visible == delivered /\ o \in DOMAIN orders /\ OrdersSelectUsing(uid, orders[o])
     IN  calls' = [calls EXCEPT
                     ![c].buyer = IF visible THEN orders[o].buyer_id ELSE Null,
                     ![c].pc = IF visible THEN "event" ELSE "finish"]
  /\ UNCHANGED <<profiles, farmer_profiles, products, messages, orders, order_items, reviews, favorites,
                 order_events, notifications, shown, toggles, favSet, last, submits, cart>>

\* the row updateOrderStatus inserts into order_events
StatusEvent(c) ==
  [order_id |-> calls[c].orderId, actor_id |-> calls[c].caller,
   event_type |-> "status_change", status |-> calls[c].status, call |-> c]

\* await supabase.from('order_events').insert({...}); its error is dropped
CallEvent(c, delivered) ==
  /\ c \in DOMAIN calls
  /\ calls[c].pc = "event"
  /\ order_events' =
       IF /\ delivered
          /\ OrderEventsConstraints(StatusEvent(c))
          /\ OrderEventsInsertCheck(calls[c].caller, StatusEvent(c))
       THEN Append(order_events, StatusEvent(c))
       ELSE order_events
  /\ calls' = [calls EXCEPT ![c].pc = "notify"]
  /\ UNCHANGED <<profiles, farmer_profiles, products, messages, orders, order_items, reviews, favorites,
                 notifications, shown, toggles, favSet, last, submits, cart>>

\* the row updateOrderStatus inserts into notifications
StatusNotification(c) ==
  [recipient_id |-> calls[c].buyer, type |-> "order_status_changed",
   meta |-> [order_id |-> calls[c].orderId, status |-> calls[c].status], call |-> c]

\* await supabase.from('notifications').insert({...}); its error is dropped
CallNotify(c, delivered) ==
  /\ c \in DOMAIN calls
  /\ calls[c].pc = "notify"
  /\ notifications' =
       IF /\ delivered
          /\ NotificationsConstraints(StatusNotification(c))
          /\ NotificationsInsertCheck(calls[c].caller, StatusNotification(c))
       THEN Append(notifications, StatusNotification(c))
       ELSE notifications
  /\ calls' = [calls EXCEPT ![c].pc = "finish"]
  /\ UNCHANGED <<profiles, farmer_profiles, products, messages, orders, order_items, reviews, favorites,
                 order_events, shown, toggles, favSet, last, submits, cart>>

\* onUpdate(): loadFarmerData reloads the orders prop
CallFinish(c) ==
  /\ c \in DOMAIN calls
  /\ calls[c].pc = "finish"
  /\ calls' = [calls EXCEPT ![c].pc = "done"]
  /\ shown' = [shown EXCEPT ![calls[c].caller] = LoadedOrders(calls[c].caller)]
  /\ UNCHANGED <<profiles, farmer_profiles, products, messages, orders, order_items, reviews, favorites,
                 order_events, notifications, toggles, favSet, last, submits, cart>>

(* ------------------------- BuyerMarketplace ---------------------------- *)
\* INSERT INTO favorites
InsertFavoriteResult(uid, row) ==
  IF /\ DOMAIN favorites # FavoriteIds
     /\ FavoritesConstraints(row)
     /\ FavoritesInsertCheck(uid, row)
  THEN "ok" ELSE "error"

FavoritesAfterInsert(uid, row) ==
  IF InsertFavoriteResult(uid, row) = "ok"
  THEN [i \in DOMAIN favorites \cup {FreshId(FavoriteIds, DOMAIN favorites)} |->
          IF i \in DOMAIN favorites THEN favorites[i] ELSE row]
  ELSE favorites

\* DELETE FROM favorites WHERE buyer_id = b AND farmer_id = f
FavoritesAfterDelete(uid, b, f) ==
  Restrict(favorites,
           {i \in DOMAIN favorites :
              ~(/\ FavoritesDeleteUsing(uid, favorites[i])
                /\ favorites[i].buyer_id = b
                /\ favorites[i].farmer_id = f)})

\* loadFavorites: the farmer ids of the session user's favorites
LoadFavorites(uid) ==
  /\ favSet' = [favSet EXCEPT ![uid] =
                  {favorites[i].farmer_id : i \in
                     {j \in DOMAIN favorites :
                        /\ FavoritesSelectUsing(uid, favorites[j])
                        /\ favorites[j].buyer_id = uid}}]
  /\ favSet'[uid] # favSet[uid]
  /\ UNCHANGED <<profiles, farmer_profiles, products, messages, orders, order_items, reviews,
                 favorites, order_events, notifications, calls, shown, toggles, last, submits, cart>>

\* toggleFavorite(farmerId) starts: the branch is taken on the favorites state
ClickFavorite(uid, f) ==
  /\ Len(toggles) < MaxToggles
  /\ toggles' = Append(toggles,
                       [caller |-> uid, farmerId |-> f,
                        pc |-> IF f \in favSet[uid] THEN "delete" ELSE "insert",
                        result |-> "none", owner |-> Null])
  /\ UNCHANGED <<profiles, farmer_profiles, products, messages, orders, order_items, reviews,
                 favorites, order_events, notifications, calls, shown, favSet, last, submits, cart>>

\* await supabase.from('favorites').delete()...; setFavorites(prev => prev without farmerId)
ToggleDelete(t, delivered) ==
  /\ t \in DOMAIN toggles
  /\ toggles[t].pc = "delete"
  /\ LET uid == toggles[t].caller
         f == toggles[t].farmerId
     IN  /\ favorites' = IF delivered THEN FavoritesAfterDelete(uid, uid, f) ELSE favorites
         /\ favSet' = [favSet EXCEPT ![uid] = @ \ {f}]
         /\ toggles' = [toggles EXCEPT ![t].pc = "done",
                                       ![t].result = IF delivered THEN "removed" ELSE "lost"]
  /\ UNCHANGED <<profiles, farmer_profiles, products, messages, orders, order_items, reviews,
                 order_events, notifications, calls, shown, last, submits, cart>>

\* await supabase.from('favorites').insert({...}); setFavorites(prev => prev with farmerId);
\* the error of the insert is dropped
ToggleInsert(t, delivered) ==
  /\ t \in DOMAIN toggles
  /\ toggles[t].pc = "insert"
  /\ LET uid == toggles[t].caller
         row == [buyer_id |-> uid, farmer_id |-> toggles[t].farmerId]
     IN  /\ favorites' = IF delivered THEN FavoritesAfterInsert(uid, row) ELSE favorites
         /\ favSet' = [favSet EXCEPT ![uid] = @ \cup {toggles[t].farmerId}]
         /\ toggles' = [toggles EXCEPT
                          ![t].pc = "lookup",
                          ![t].result = IF delivered THEN InsertFavoriteResult(uid, row)
                                        ELSE "lost"]
  /\ UNCHANGED <<profiles, farmer_profiles, products, messages, orders, order_items, reviews,
                 order_events, notifications, calls, shown, last, submits, cart>>

\* const { data: farmerProfile } = await ...select('user_id, farm_name').eq('id', farmerId).maybeSingle()
ToggleLookup(t, delivered) ==
  /\ t \in DOMAIN toggles
  /\ toggles[t].pc = "lookup"
  /\ LET f == toggles[t].farmerId
         found == delivered /\ Authenticated(toggles[t].caller) /\ f \in DOMAIN farmer_profiles
     IN  toggles' = [toggles EXCEPT
                       ![t].owner = IF found THEN farmer_profiles[f].user_id ELSE Null,
                       ![t].pc = IF found THEN "notify" ELSE "done"]
  /\ UNCHANGED <<profiles, farmer_profiles, products, messages, orders, order_items, reviews,
                 favorites, order_events, notifications, calls, shown, favSet, last, submits, cart>>

\* the row toggleFavorite inserts into notifications
FavoritedNotification(t) ==
  [recipient_id |-> toggles[t].owner, type |-> "favorited",
   meta |-> [buyer_id |-> toggles[t].caller, farmer_id |-> toggles[t].farmerId],
   call |-> t]

\* await supabase.from('notifications').insert({...}); its error is dropped
ToggleNotify(t, delivered) ==
  /\ t \in DOMAIN toggles
  /\ toggles[t].pc = "notify"
  /\ notifications' =
       IF /\ delivered
          /\ NotificationsConstraints(FavoritedNotification(t))
          /\ NotificationsInsertCheck(toggles[t].caller, FavoritedNotification(t))
       THEN Append(notifications, FavoritedNotification(t))
       ELSE notifications
  /\ toggles' = [toggles EXCEPT ![t].pc = "done"]
  /\ UNCHANGED <<profiles, farmer_profiles, products, messages, orders, order_items, reviews,
                 favorites, order_events, calls, shown, favSet, last, submits, cart>>

\* an INSERT into favorites sent directly to the store
InsertFavorite(uid, row) ==
  /\ favorites' = FavoritesAfterInsert(uid, row)
  /\ last' = [op |-> "insert_favorite", caller |-> uid, target |-> 0,
              result |-> InsertFavoriteResult(uid, row)]
  /\ UNCHANGED <<profiles, farmer_profiles, products, messages, orders, order_items, reviews,
                 order_events, notifications, calls, shown, toggles, favSet, submits, cart>>

(* ------------------------- FarmerProfileView --------------------------- *)
\* submitReview starts: it returns at once without a user or with a rating outside 1..5
ClickSubmitReview(uid, f, rating) ==
  /\ Len(submits) < MaxSubmits
  /\ Authenticated(uid)
  /\ ~(rating < 1 \/ rating > 5)
  /\ submits' = Append(submits, [caller |-> uid, farmerId |-> f, rating |-> rating,
                                 pc |-> "insert", inserted |-> FALSE, thanked |-> FALSE])
  /\ UNCHANGED <<profiles, farmer_profiles, products, messages, orders, order_items, reviews,
                 favorites, order_events, notifications, calls, shown, toggles, favSet, last,
                 cart>>

\* the row submitReview sends: it has no order_id, which the store takes as null
SubmittedReview(s) ==
  [farmer_id |-> submits[s].farmerId, buyer_id |-> submits[s].caller, order_id |-> NoOrder,
   rating |-> submits[s].rating]

\* await supabase.from('reviews').insert({...}); its error is dropped
SubmitInsert(s, delivered) ==
  /\ s \in DOMAIN submits
  /\ submits[s].pc = "insert"
  /\ LET uid == submits[s].caller
         accepted == /\ delivered
                     /\ DOMAIN reviews # ReviewIds
                     /\ InsertReviewResult(uid, SubmittedReview(s)) = "ok"
     IN  /\ reviews' = IF accepted
                       THEN [r \in DOMAIN reviews \cup {FreshId(ReviewIds, DOMAIN reviews)} |->
                               IF r \in DOMAIN reviews THEN reviews[r] ELSE SubmittedReview(s)]
                       ELSE reviews
         /\ submits' = [submits EXCEPT ![s].pc = "reload", ![s].inserted = accepted]
  /\ UNCHANGED <<profiles, farmer_profiles, products, messages, orders, order_items,
                 favorites, order_events, notifications, calls, shown, toggles, favSet, last,
                 cart>>

\* the form is cleared, await loadReviews() selects the farmer's reviews, and
\* alert('Thank you for your review!') reports success
SubmitThanks(s) ==
  /\ s \in DOMAIN submits
  /\ submits[s].pc = "reload"
  /\ submits' = [submits EXCEPT ![s].pc = "done", ![s].thanked = TRUE]
  /\ UNCHANGED <<profiles, farmer_profiles, products, messages, orders, order_items, reviews,
                 favorites, order_events, notifications, calls, shown, toggles, favSet, last,
                 cart>>

(* ------------------------------- cart ---------------------------------- *)
\* faulty variant of the updater: the product is appended without looking for its entry
CartAfterAddAppends(prev, p, f) ==
  Append(prev, [product_id |-> p, farmer_id |-> f, quantity |-> 1])

\* the updater addToCart passes to setCart
CartAfterAdd(prev, p, f) ==
  IF \E i \in DOMAIN prev : prev[i].product_id = p
  THEN [i \in DOMAIN prev |->
          IF prev[i].product_id = p
          THEN [prev[i] EXCEPT !.quantity = prev[i].quantity + 1]
          ELSE prev[i]]
  ELSE Append(prev, [product_id |-> p, farmer_id |-> f, quantity |-> 1])

\* addToCart(product, farmer) in the session of uid
AddToCart(uid, p) ==
  /\ p \in DOMAIN products
  /\ \A i \in DOMAIN cart[uid] : cart[uid][i].quantity < MaxQuantity
  /\ cart' = [cart EXCEPT ![uid] = CartAfterAdd(cart[uid], p, products[p].farmer_id)]
  /\ UNCHANGED <<profiles, farmer_profiles, products, messages, orders, order_items, reviews,
                 favorites, order_events, notifications, calls, shown, toggles, favSet, last,
                 submits>>

(* --------------------------- specifications ---------------------------- *)
\* the store after the accounts signed up and the farmers completed FarmerSetup
Init ==
  /\ profiles = [u \in Users |-> [user_type |-> IF u = "u3" THEN "buyer" ELSE "farmer"]]
  /\ farmer_profiles = [f \in FarmerIds |-> [user_id |-> IF f = "f1" THEN "u1" ELSE "u2"]]
  /\ products = [p \in ProductIds |-> [farmer_id |-> IF p = "p1" THEN "f1" ELSE "f2",
                                        price_per_unit |-> 1, is_available |-> TRUE]]
  /\ orders = <<>>
  /\ order_items = <<>>
  /\ reviews = <<>>
  /\ favorites = <<>>
  /\ messages = <<>>
  /\ order_events = <<>>
  /\ notifications = <<>>
  /\ calls = <<>>
  /\ shown = [u \in Users |-> <<>>]
  /\ toggles = <<>>
  /\ favSet = [u \in Users |-> {}]
  /\ submits = <<>>
  /\ cart = [u \in Users |-> <<>>]
  /\ last = NoRequest

\* the orders a buyer places in the lifecycle specification
NewOrders == [buyer_id : Users, farmer_id : FarmerIds, status : {"pending"}, total_amount : {0}]

PlaceOrder ==
  /\ DOMAIN orders # OrderIds
  /\ \E row \in NewOrders : InsertOrder(row.buyer_id, row)
Reload == \E u \in Users : LoadOrders(u)
Click == \E u \in Users, o \in OrderIds, s \in Statuses : ClickStatus(u, o, s)
StepUpdate == \E c \in 1..MaxCalls, d \in BOOLEAN : CallUpdate(c, d)
StepSelect == \E c \in 1..MaxCalls, d \in BOOLEAN : CallSelect(c, d)
StepEvent == \E c \in 1..MaxCalls, d \in BOOLEAN : CallEvent(c, d)
StepNotify == \E c \in 1..MaxCalls, d \in BOOLEAN : CallNotify(c, d)
StepFinish == \E c \in 1..MaxCalls : CallFinish(c)

Next ==
  \/ PlaceOrder
  \/ Reload
  \/ Click
  \/ StepUpdate
  \/ StepSelect
  \/ StepEvent
  \/ StepNotify
  \/ StepFinish

Spec == Init /\ [][Next]_vars

(* ---------------- requests sent directly to the store ------------------ *)
Amounts == 0..MaxAmount

\* the rows and SET lists a caller may send for orders; "shipped" and -1 are values
\* the CHECK constraints refuse
OrderRows ==
  [buyer_id : {"u1", "u3"}, farmer_id : FarmerIds, status : {"pending", "completed", "shipped"},
   total_amount : {0}]
OrderPatches ==
  [status : {"ready", "shipped"}]
    \cup [total_amount : {-1, MaxAmount}]
    \cup [buyer_id : {"u2"}]
    \cup [farmer_id : {"f2"}]

RequestInsertOrder ==
  /\ DOMAIN orders # OrderIds
  /\ \E c \in Callers, row \in OrderRows : InsertOrder(c, row)
RequestUpdateOrder == \E c \in Callers, o \in OrderRefs, p \in OrderPatches : UpdateOrder(c, o, p)
RequestSelectOrder == \E c \in Callers, o \in OrderRefs : SelectOrder(c, o)

NextAccess ==
  \/ RequestInsertOrder
  \/ RequestUpdateOrder
  \/ RequestSelectOrder

SpecAccess == Init /\ [][NextAccess]_vars

(* ------------------- orders and their line items ----------------------- *)
\* the orders and line items of the totals specification: one buyer, one farmer
TotalsOrders == [buyer_id : {"u3"}, farmer_id : {"f1"}, status : {"pending"}, total_amount : Amounts]
TotalsItems ==
  [order_id : OrderRefs, product_id : {"p1", "p9"}, quantity : {1, 2},
   price_per_unit : {1}, subtotal : {-1} \cup Amounts]
TotalsPatches == [total_amount : Amounts]

TotalsInsertOrder ==
  /\ DOMAIN orders # OrderIds
  /\ \E row \in TotalsOrders : InsertOrder(row.buyer_id, row)
TotalsInsertItem == \E c \in {"u1", "u3"}, row \in TotalsItems : InsertOrderItem(c, row)
TotalsUpdateOrder == \E c \in {"u1", "u2", "u3"}, o \in OrderIds, p \in TotalsPatches : UpdateOrder(c, o, p)

ItemPatches == [quantity : {2}] \cup [subtotal : {0}]
RequestUpdateItem ==
  \E c \in {"u1", "u3"}, i \in ItemIds, p \in ItemPatches : UpdateOrderItem(c, i, p)
RequestDeleteItem == \E c \in {"u1", "u3"}, i \in ItemIds : DeleteOrderItem(c, i)
TotalsDeleteProduct == \E c \in {"u1", "u3"} : HandleDelete(c, "p1")

NextTotals ==
  \/ TotalsInsertOrder
  \/ TotalsInsertItem
  \/ TotalsUpdateOrder
  \/ RequestUpdateItem
  \/ RequestDeleteItem
  \/ TotalsDeleteProduct

SpecTotals == Init /\ [][NextTotals]_vars

(* ----------------------------- reviews --------------------------------- *)
\* the orders, reviews and SET lists of the reviews specification
ReviewOrders ==
  [buyer_id : {"u3"}, farmer_id : {"f1"}, status : {"pending"}, total_amount : {0}]
ReviewRows ==
  [farmer_id : {"f2"}, buyer_id : {"u2", "u3"}, order_id : {NoOrder} \cup OrderRefs,
   rating : {0, 5}]
ReviewPatches == [order_id : {NoOrder} \cup OrderRefs] \cup [rating : {1, 6}] \cup [buyer_id : {"u2"}]

ReviewsPlaceOrder ==
  /\ DOMAIN orders # OrderIds
  /\ \E row \in ReviewOrders : InsertOrder(row.buyer_id, row)
ReviewsSetStatus ==
  \E c \in {"u1", "u3"}, o \in OrderIds, st \in {"pending", "completed"} :
    UpdateOrder(c, o, StatusPatch(st))
RequestInsertReview == \E c \in {"u2", "u3"}, row \in ReviewRows : InsertReview(c, row)
RequestUpdateReview == \E c \in {"u2", "u3"}, r \in ReviewIds, p \in ReviewPatches : UpdateReview(c, r, p)
RemoveAccount == \E u \in {"u1", "u3"} : DeleteAccount(u)

NextReviews ==
  \/ ReviewsPlaceOrder
  \/ ReviewsSetStatus
  \/ RequestInsertReview
  \/ RequestUpdateReview
  \/ RemoveAccount

SpecReviews == Init /\ [][NextReviews]_vars

(* ---------------------------- favorites -------------------------------- *)
\* the buyers and farmers of the favorites specification
FavoriteBuyers == {"u2", "u3"}
FavoriteRows == [buyer_id : FavoriteBuyers, farmer_id : {"f1", "f9"}]

ReloadFavorites == \E u \in FavoriteBuyers : LoadFavorites(u)
ToggleClick == \E u \in FavoriteBuyers : ClickFavorite(u, "f1")
StepDelete == \E t \in 1..MaxToggles, d \in BOOLEAN : ToggleDelete(t, d)
StepInsert == \E t \in 1..MaxToggles, d \in BOOLEAN : ToggleInsert(t, d)
StepLookup == \E t \in 1..MaxToggles, d \in BOOLEAN : ToggleLookup(t, d)
StepFavorited == \E t \in 1..MaxToggles, d \in BOOLEAN : ToggleNotify(t, d)
RequestInsertFavorite == \E c \in FavoriteBuyers, row \in FavoriteRows : InsertFavorite(c, row)

NextFavorites ==
  \/ ReloadFavorites
  \/ ToggleClick
  \/ StepDelete
  \/ StepInsert
  \/ StepLookup
  \/ StepFavorited
  \/ RequestInsertFavorite

SpecFavorites == Init /\ [][NextFavorites]_vars

(* --------------------------- order events ------------------------------ *)
\* the orders, event rows and SET lists of the events specification; "u9" is no profile
EventOrders ==
  [buyer_id : {"u3"}, farmer_id : {"f1"}, status : {"pending"}, total_amount : {0}]
EventRows ==
  [order_id : OrderRefs, actor_id : {"u2", "u3", "u9"}, event_type : {"status_change", "note"},
   status : {Null, "ready"}, call : {0}]
EventPatches == [status : {Null, "ready"}] \cup [event_type : {"note"}]

EventsPlaceOrder ==
  /\ DOMAIN orders # OrderIds
  /\ \E row \in EventOrders : InsertOrder(row.buyer_id, row)
RequestInsertEvent == \E c \in {"u1", "u2", "u3"}, row \in EventRows : InsertOrderEvent(c, row)
RequestUpdateEvent ==
  \E c \in {"u1", "u2", "u3"}, i \in 1..MaxEvents, p \in EventPatches : UpdateOrderEvent(c, i, p)
RequestDeleteEvent == \E c \in {"u1", "u2", "u3"}, i \in 1..MaxEvents : DeleteOrderEvent(c, i)

NextEvents ==
  \/ EventsPlaceOrder
  \/ RequestInsertEvent
  \/ RequestUpdateEvent
  \/ RequestDeleteEvent

SpecEvents == Init /\ [][NextEvents]_vars

(* ----------------------- profiles and farmers -------------------------- *)
\* the store after u1 and u3 signed up and created their profiles; u2 has an account and
\* no profile yet, and no farmer has completed FarmerSetup
InitSignup ==
  /\ profiles = [u \in {"u1", "u3"} |-> [user_type |-> IF u = "u1" THEN "farmer" ELSE "buyer"]]
  /\ farmer_profiles = <<>>
  /\ products = <<>>
  /\ orders = <<>>
  /\ order_items = <<>>
  /\ reviews = <<>>
  /\ favorites = <<>>
  /\ messages = <<>>
  /\ order_events = <<>>
  /\ notifications = <<>>
  /\ calls = <<>>
  /\ shown = [u \in Users |-> <<>>]
  /\ toggles = <<>>
  /\ favSet = [u \in Users |-> {}]
  /\ submits = <<>>
  /\ cart = [u \in Users |-> <<>>]
  /\ last = NoRequest

\* the rows and SET lists of the identity specification; "admin" is a kind the CHECK refuses
ProfileRows == [user_type : {"farmer", "buyer", "admin"}]
ProfilePatches == [user_type : {"farmer", "buyer"}]
FarmerProfileRows == [user_id : Users]

RequestInsertProfile ==
  \E c \in Callers, id \in Users, row \in ProfileRows : InsertProfile(c, id, row)
RequestUpdateProfile ==
  \E c \in Callers, id \in Users, p \in ProfilePatches : UpdateProfile(c, id, id, p)
RequestMoveProfile ==
  \E c \in Callers, id \in Users, newId \in Users :
    UpdateProfile(c, id, newId, <<>>)
SubmitFarmerSetup == \E u \in Users : FarmerSetupSubmit(u)
RequestInsertFarmerProfile ==
  \E c \in Callers, row \in FarmerProfileRows : InsertFarmerProfile(c, row)
RequestUpdateFarmerProfile ==
  \E c \in Callers, f \in FarmerIds, p \in FarmerProfileRows : UpdateFarmerProfile(c, f, p)

NextIdentity ==
  \/ RequestInsertProfile
  \/ RequestUpdateProfile
  \/ RequestMoveProfile
  \/ SubmitFarmerSetup
  \/ RequestInsertFarmerProfile
  \/ RequestUpdateFarmerProfile

SpecIdentity == InitSignup /\ [][NextIdentity]_vars

(* ------------------------------ catalog -------------------------------- *)
\* the store after both farmers completed FarmerSetup and u1 added the product p1
InitCatalog ==
  /\ profiles = [u \in Users |-> [user_type |-> IF u = "u3" THEN "buyer" ELSE "farmer"]]
  /\ farmer_profiles = [f \in FarmerIds |-> [user_id |-> IF f = "f1" THEN "u1" ELSE "u2"]]
  /\ products = [p \in {"p1"} |-> [farmer_id |-> "f1", price_per_unit |-> 1,
                                     is_available |-> TRUE]]
  /\ orders = <<>>
  /\ order_items = <<>>
  /\ reviews = <<>>
  /\ favorites = <<>>
  /\ messages = <<>>
  /\ order_events = <<>>
  /\ notifications = <<>>
  /\ calls = <<>>
  /\ shown = [u \in Users |-> <<>>]
  /\ toggles = <<>>
  /\ favSet = [u \in Users |-> {}]
  /\ submits = <<>>
  /\ cart = [u \in Users |-> <<>>]
  /\ last = NoRequest

\* the rows and SET lists a caller may send for products
ProductRows == [farmer_id : FarmerIds, price_per_unit : {1}, is_available : {TRUE}]
ProductPatches == [farmer_id : FarmerIds] \cup [price_per_unit : {MaxAmount}]

SubmitProduct == \E u \in Users, f \in FarmerIds : SubmitNewProduct(u, f, 1)
EditProduct == \E u \in Users, p \in ProductIds : SubmitEditedProduct(u, p, MaxAmount)
RemoveProduct == \E u \in Users, p \in ProductIds : HandleDelete(u, p)
FlipAvailability == \E u \in Users, p \in ProductIds, seen \in BOOLEAN : ToggleAvailability(u, p, seen)
RequestInsertProduct == \E c \in Callers, row \in ProductRows : InsertProduct(c, row)
RequestUpdateProduct ==
  \E c \in Callers, p \in ProductIds, patch \in ProductPatches : UpdateProduct(c, p, patch)
RequestDeleteProduct == \E c \in Callers, p \in ProductIds : DeleteProduct(c, p)

NextCatalog ==
  \/ SubmitProduct
  \/ EditProduct
  \/ RemoveProduct
  \/ FlipAvailability
  \/ RequestInsertProduct
  \/ RequestUpdateProduct
  \/ RequestDeleteProduct

SpecCatalog == InitCatalog /\ [][NextCatalog]_vars

(* ------------------------- submitting reviews -------------------------- *)
\* the orders of the review form specification
SubmitOrders ==
  [buyer_id : {"u3"}, farmer_id : {"f1"}, status : {"pending"}, total_amount : {0}]

SubmitPlaceOrder ==
  /\ DOMAIN orders # OrderIds
  /\ \E row \in SubmitOrders : InsertOrder(row.buyer_id, row)
SubmitCompleteOrder == \E o \in OrderIds : UpdateOrder("u1", o, StatusPatch("completed"))
SubmitClick ==
  \E u \in {"u2", "u3"}, f \in FarmerIds, rating \in {0, 1, 5} : ClickSubmitReview(u, f, rating)
StepSubmitInsert == \E s \in 1..MaxSubmits, d \in BOOLEAN : SubmitInsert(s, d)
StepSubmitThanks == \E s \in 1..MaxSubmits : SubmitThanks(s)

NextSubmit ==
  \/ SubmitPlaceOrder
  \/ SubmitCompleteOrder
  \/ SubmitClick
  \/ StepSubmitInsert
  \/ StepSubmitThanks

SpecSubmit == Init /\ [][NextSubmit]_vars

(* ------------------------------- cart ---------------------------------- *)
CartUsers == {"u2", "u3"}

Add == \E u \in CartUsers, p \in ProductIds : AddToCart(u, p)

NextCart ==
  \/ Add

SpecCart == Init /\ [][NextCart]_vars

(* ----------------------------- messages ------------------------------- *)
\* the rows and SET lists of the messages specification
MessageUsers == {"u1", "u3"}
MessageRows ==
  [sender_id : MessageUsers, recipient_id : MessageUsers, content : {"hello"}, is_read : {FALSE}]
MessagePatches ==
  [is_read : BOOLEAN] \cup [content : {"edited"}] \cup [sender_id : MessageUsers]
    \cup [recipient_id : MessageUsers]

Send == \E u, to \in MessageUsers : SendMessage(u, to, "hello")
OpenConversation == \E u, other \in MessageUsers : LoadMessages(u, other)
RequestInsertMessage == \E c \in MessageUsers, row \in MessageRows : InsertMessage(c, row)
RequestUpdateMessage ==
  \E c \in MessageUsers, m \in MessageIds, p \in MessagePatches : UpdateMessage(c, m, p)

NextMessages ==
  \/ Send
  \/ OpenConversation
  \/ RequestInsertMessage
  \/ RequestUpdateMessage

SpecMessages == Init /\ [][NextMessages]_vars

(* ------------------ claims on the order lifecycle ---------------------- *)
EventsOf(c) ==
  {i \in DOMAIN order_events :
     /\ order_events[i].call = c
     /\ order_events[i].order_id = calls[c].orderId
     /\ order_events[i].event_type = "status_change"
     /\ order_events[i].status = calls[c].status}

NotificationsOf(c) ==
  {i \in DOMAIN notifications :
     /\ notifications[i].type = "order_status_changed"
     /\ notifications[i].call = c
     /\ notifications[i].meta = [order_id |-> calls[c].orderId, status |-> calls[c].status]
     /\ notifications[i].recipient_id = orders[calls[c].orderId].buyer_id}

\* the call c changed the status of its order and has returned
Transitioned(c) ==
  /\ calls[c].pc = "done"
  /\ calls[c].applied
  /\ OwnsFarmer(calls[c].caller, orders[calls[c].orderId].farmer_id)

\* C2: a status transition performed by the owning farmer through updateOrderStatus
\* has created exactly one status_change event with the new status and exactly one
\* notification to the order's buyer when the call has returned.
C2_OneEventOneNotification ==
  \A c \in DOMAIN calls :
    Transitioned(c) =>
      /\ Cardinality(EventsOf(c)) = 1
      /\ Cardinality(NotificationsOf(c)) = 1

\* C3: in no reachable state has a transition updated Order.status while its
\* status_change event or its notification is missing.
C3_TransitionAtomic ==
  \A c \in DOMAIN calls :
    calls[c].applied => EventsOf(c) # {} /\ NotificationsOf(c) # {}

\* C4: once an order's status is completed or cancelled, no step changes it.
C4_TerminalIsFinal ==
  [][\A o \in DOMAIN orders :
       orders[o].status \in Terminal => orders'[o].status = orders[o].status]_vars

\* the step in which call c's update request changes the status of its order
AppliesUpdate(c) ==
  /\ calls[c].pc = "update"
  /\ calls'[c].pc = "select"
  /\ calls'[c].applied

\* C5: a transition to cancelled is never applied to an order whose status is
\* completed or cancelled (it is applied only to pending, confirmed and ready orders).
C5_CancelOnlyNonTerminal ==
  [][\A c \in DOMAIN calls :
       (AppliesUpdate(c) /\ calls[c].status = "cancelled")
         => orders[calls[c].orderId].status \notin Terminal]_vars

LegalEdge(from, to) ==
  \/ from = "pending" /\ to = "confirmed"
  \/ from = "confirmed" /\ to = "ready"
  \/ from = "ready" /\ to = "completed"
  \/ from \notin Terminal /\ to = "cancelled"

\* C6: every change of an order's status follows a legal edge of the lifecycle.
C6_LegalEdgesOnly ==
  [][\A o \in DOMAIN orders :
       orders'[o].status # orders[o].status
         => LegalEdge(orders[o].status, orders'[o].status)]_vars

\* C12: the notification of a status transition goes to the counterparty of the actor:
\* to the order's buyer when the owning farmer acted, to the identity owning the order's
\* farmer profile when the buyer acted, and never to the actor.
C12_NotifiesCounterparty ==
  \A i \in DOMAIN notifications :
    notifications[i].type = "order_status_changed" =>
      LET actor == calls[notifications[i].call].caller
          row == orders[calls[notifications[i].call].orderId]
          recipient == notifications[i].recipient_id
      IN  /\ recipient # actor
          /\ actor # row.buyer_id => recipient = row.buyer_id
          /\ actor = row.buyer_id => OwnsFarmer(recipient, row.farmer_id)

\* C23: a call of updateOrderStatus creates a status_change event or a notification
\* for its status only if its update request set the order's status.
C23_RecordsOnlyAppliedTransitions ==
  \A c \in DOMAIN calls :
    (\/ \E i \in DOMAIN order_events : order_events[i].call = c
     \/ \E i \in DOMAIN notifications :
          notifications[i].type = "order_status_changed" /\ notifications[i].call = c)
      => calls[c].applied

\* the status_change events of order o, by their place in the log
StatusEventsOfOrder(o) ==
  {i \in DOMAIN order_events :
     order_events[i].order_id = o /\ order_events[i].event_type = "status_change"}

\* both calls are on one order, every request of both went through and both have returned
BothCompleted(a, b) ==
  /\ a # b
  /\ calls[a].orderId = calls[b].orderId
  /\ Transitioned(a) /\ Transitioned(b)
  /\ EventsOf(a) # {} /\ EventsOf(b) # {}
  /\ NotificationsOf(a) # {} /\ NotificationsOf(b) # {}

\* C24: after two updateOrderStatus calls on one order have finished, the status of the
\* most recently inserted status_change event of the order is the order's status.
C24_LastEventIsCurrentStatus ==
  \A a, b \in DOMAIN calls :
    BothCompleted(a, b) =>
      \A i \in StatusEventsOfOrder(calls[a].orderId) :
        (\A j \in StatusEventsOfOrder(calls[a].orderId) : j <= i)
          => order_events[i].status = orders[calls[a].orderId].status

(* ----------------- claims on the access policies ----------------------- *)
\* c is the buyer of the order row or the identity owning its farmer profile
Party(c, row) ==
  \/ c = row.buyer_id
  \/ \E f \in DOMAIN farmer_profiles :
       f = row.farmer_id /\ farmer_profiles[f].user_id = c

\* C1: an update of order o attempted by a caller who is neither o's buyer nor the
\* identity owning o's farmer profile is rejected and leaves every column of o as it was.
C1_StrangerUpdateRejected ==
  [][\A o \in DOMAIN orders :
       (last'.op = "update_order" /\ last'.target = o /\ ~Party(last'.caller, orders[o]))
         => (last'.result # "ok" /\ orders' = orders)]_vars

\* an authenticated stranger has sent an update for an existing order
C1_Witness ==
  /\ last.op = "update_order"
  /\ last.caller \in Users
  /\ last.target \in DOMAIN orders
  /\ ~Party(last.caller, orders[last.target])
  /\ last.result = "none"

\* C13: the row added by every accepted order insert has status pending, whatever
\* status the request supplies.
C13_CreatedPending ==
  [][\A o \in DOMAIN orders' \ DOMAIN orders : orders'[o].status = "pending"]_vars

\* C14: every update of an order leaves its buyer_id, farmer_id and total_amount as
\* they were.
C14_UpdateKeepsPartiesAndTotal ==
  [][\A o \in DOMAIN orders :
       last'.op = "update_order" =>
         /\ o \in DOMAIN orders'
         /\ orders'[o].buyer_id = orders[o].buyer_id
         /\ orders'[o].farmer_id = orders[o].farmer_id
         /\ orders'[o].total_amount = orders[o].total_amount]_vars

\* C19: for a caller who is no party of an existing order, a read and every update aimed
\* at that order have the outcome of the same request aimed at an id no order has, and
\* neither changes the orders table.
C19_DenialLooksLikeAbsence ==
  \A c \in Callers, o \in DOMAIN orders, n \in OrderRefs \ DOMAIN orders :
    ~Party(c, orders[o]) =>
      /\ SelectOrderResult(c, o) = SelectOrderResult(c, n)
      /\ \A p \in OrderPatches :
           /\ UpdateOrderResult(c, o, p) = UpdateOrderResult(c, n, p)
           /\ OrdersAfterUpdate(c, o, p) = orders
           /\ OrdersAfterUpdate(c, n, p) = orders

\* an authenticated caller who is no party of an existing order has just read it and
\* got no row
C19_Witness ==
  /\ last.op = "select_order"
  /\ last.caller \in Users
  /\ last.target \in DOMAIN orders
  /\ ~Party(last.caller, orders[last.target])
  /\ last.result = "none"

(* ------------------- claims on totals and line items ------------------- *)
ItemsOf(items, o) == {i \in DOMAIN items : items[i].order_id = o}

RECURSIVE SumSubtotals(_, _)
SumSubtotals(items, ids) ==
  IF ids = {} THEN 0
  ELSE LET i == CHOOSE j \in ids : TRUE
       IN  items[i].subtotal + SumSubtotals(items, ids \ {i})

TotalMatches(ords, items, o) ==
  ords[o].total_amount = SumSubtotals(items, ItemsOf(items, o))

\* C10: once an order has line items and its total_amount equals the sum of their
\* subtotals, the equality holds after every later permitted operation.
C10_TotalStaysSumOfSubtotals ==
  [][\A o \in DOMAIN orders :
       (ItemsOf(order_items, o) # {} /\ TotalMatches(orders, order_items, o))
         => TotalMatches(orders', order_items', o)]_vars

\* C11: every stored line item satisfies subtotal = quantity * price_per_unit (an insert
\* whose subtotal differs is refused).
C11_SubtotalIsQuantityTimesPrice ==
  \A i \in DOMAIN order_items :
    order_items[i].subtotal = order_items[i].quantity * order_items[i].price_per_unit

(* ------------------------- claims on reviews --------------------------- *)
\* C7: a review insert is accepted only if its buyer_id is the caller and its order_id
\* names an existing order whose buyer is the caller and whose status is completed at
\* the time of the insert; any other insert adds no row.
C7_ReviewNeedsOwnCompletedOrder ==
  [][\A r \in DOMAIN reviews' \ DOMAIN reviews :
       /\ last'.op = "insert_review"
       /\ reviews'[r].buyer_id = last'.caller
       /\ reviews'[r].order_id \in DOMAIN orders
       /\ orders[reviews'[r].order_id].buyer_id = last'.caller
       /\ orders[reviews'[r].order_id].status = "completed"]_vars

\* a review was accepted earlier, and a buyer's review of their own order that is
\* not completed has just been refused
C7_Witness ==
  /\ DOMAIN reviews # {}
  /\ last.op = "insert_review"
  /\ last.result = "error"
  /\ last.target \in DOMAIN orders
  /\ orders[last.target].buyer_id = last.caller
  /\ orders[last.target].status # "completed"

\* C8 as stated: no two review rows share the same (buyer_id, order_id) pair, a null
\* order_id included.
C8_NoSharedPairNullIncluded ==
  \A a, b \in DOMAIN reviews :
    a # b => ~(/\ reviews[a].buyer_id = reviews[b].buyer_id
               /\ reviews[a].order_id = reviews[b].order_id)

\* C8 amended: no two review rows whose order_id is not null share the same
\* (buyer_id, order_id) pair.
C8_NoSharedPairOfOrders ==
  \A a, b \in DOMAIN reviews :
    (a # b /\ reviews[a].order_id # NoOrder)
      => ~(/\ reviews[a].buyer_id = reviews[b].buyer_id
           /\ reviews[a].order_id = reviews[b].order_id)

\* a buyer holds a review of an order, and a request that would give a second row the
\* same pair has just been refused
C8_Witness ==
  /\ last.op \in {"insert_review", "update_review"}
  /\ last.result = "error"
  /\ \E a, b \in DOMAIN reviews :
       /\ a # b
       /\ reviews[a].buyer_id = reviews[b].buyer_id
       /\ reviews[a].order_id # NoOrder
       /\ reviews[b].order_id # reviews[a].order_id

(* ------------------------ claims on favorites -------------------------- *)
\* C9: no two favorite rows share the same (buyer_id, farmer_id) pair; a second add of
\* the same farmer by the same buyer is refused and leaves one row.
C9_OneFavoritePerPair ==
  \A a, b \in DOMAIN favorites :
    a # b => ~(/\ favorites[a].buyer_id = favorites[b].buyer_id
               /\ favorites[a].farmer_id = favorites[b].farmer_id)

\* two toggleFavorite calls of one buyer for one farmer both took the insert branch:
\* the first insert was accepted, the second refused, and one row is stored
C9_Witness ==
  \E s, t \in DOMAIN toggles :
    /\ s # t
    /\ toggles[s].caller = toggles[t].caller
    /\ toggles[s].farmerId = toggles[t].farmerId
    /\ toggles[s].result = "ok"
    /\ toggles[t].result = "error"
    /\ Cardinality({i \in DOMAIN favorites :
                      /\ favorites[i].buyer_id = toggles[t].caller
                      /\ favorites[i].farmer_id = toggles[t].farmerId}) = 1

(* ----------------------- claims on order events ------------------------ *)
\* C15: the event log is append-only: every step keeps each stored order event, in its
\* place and with its content.
C15_EventLogAppendOnly ==
  [][\A i \in DOMAIN order_events :
       /\ i \in DOMAIN order_events'
       /\ order_events'[i] = order_events[i]]_vars

\* a party of an order has just sent an update or a delete for one of its events, and
\* no row was affected
C15_Witness ==
  /\ last.op \in {"update_event", "delete_event"}
  /\ last.target \in DOMAIN order_events
  /\ order_events[last.target].order_id \in DOMAIN orders
  /\ Party(last.caller, orders[order_events[last.target].order_id])
  /\ last.result = "none"

\* C16: an order event carries a status if and only if its event_type is status_change.
C16_StatusIffStatusChange ==
  \A i \in DOMAIN order_events :
    (order_events[i].status # Null) <=> (order_events[i].event_type = "status_change")

(* -------------------- claims on profiles and farmers ------------------- *)
\* C17: no step changes the id or the kind (user_type) of a stored profile.
C17_IdAndKindFixed ==
  [][\A u \in DOMAIN profiles :
       /\ u \in DOMAIN profiles'
       /\ profiles'[u].user_type = profiles[u].user_type]_vars

\* C20: there is at most one farmer profile per identity, and a farmer_profiles insert
\* by an identity that already has one is refused and leaves the table as it was.
C20_OneFarmerProfilePerIdentity ==
  [][/\ \A a, b \in DOMAIN farmer_profiles' :
          a # b => farmer_profiles'[a].user_id # farmer_profiles'[b].user_id
     /\ (/\ last'.op = "insert_farmer_profile"
         /\ \E f \in DOMAIN farmer_profiles : farmer_profiles[f].user_id = last'.caller)
          => (last'.result = "error" /\ farmer_profiles' = farmer_profiles)]_vars

\* a farmer who has a farmer profile has just sent a second insert, which was refused
\* while the table had room for another row
C20_Witness ==
  /\ last.op = "insert_farmer_profile"
  /\ last.result = "error"
  /\ last.caller \in DOMAIN profiles
  /\ profiles[last.caller].user_type = "farmer"
  /\ \E f \in DOMAIN farmer_profiles : farmer_profiles[f].user_id = last.caller
  /\ DOMAIN farmer_profiles # FarmerIds

(* -------------------------- claims on messages ------------------------- *)
\* C18: every step keeps each stored message with its sender_id, recipient_id and
\* content; a change of a message is made by its recipient and touches is_read only.
C18_OnlyReadFlagChanges ==
  [][\A m \in DOMAIN messages :
       /\ m \in DOMAIN messages'
       /\ messages'[m].sender_id = messages[m].sender_id
       /\ messages'[m].recipient_id = messages[m].recipient_id
       /\ messages'[m].content = messages[m].content
       /\ messages'[m] # messages[m] => last'.caller = messages[m].recipient_id]_vars

(* ------------------ further claims on the policies --------------------- *)
\* the 'favorited' notifications created for buyer b and farmer f
FavoritedFor(b, f) ==
  {i \in DOMAIN notifications :
     /\ notifications[i].type = "favorited"
     /\ notifications[i].meta = [buyer_id |-> b, farmer_id |-> f]}

\* the toggleFavorite calls of buyer b for farmer f whose insert the store accepted
AcceptedInserts(b, f) ==
  {t \in DOMAIN toggles :
     /\ toggles[t].caller = b
     /\ toggles[t].farmerId = f
     /\ toggles[t].result = "ok"}

\* C26: when every toggleFavorite call has finished, the number of 'favorited'
\* notifications for a buyer and a farmer is the number of favorite inserts of those
\* calls that were accepted.
C26_OneNotificationPerAcceptedInsert ==
  (\A t \in DOMAIN toggles : toggles[t].pc = "done") =>
    \A b \in Users, f \in FarmerIds :
      Cardinality(FavoritedFor(b, f)) = Cardinality(AcceptedInserts(b, f))

\* C27: every review with a non-null order_id references an order whose buyer is the
\* review's buyer and whose status is completed.
C27_ReviewedOrderStaysCompleted ==
  \A r \in DOMAIN reviews :
    reviews[r].order_id # NoOrder =>
      /\ reviews[r].order_id \in DOMAIN orders
      /\ orders[reviews[r].order_id].buyer_id = reviews[r].buyer_id
      /\ orders[reviews[r].order_id].status = "completed"

\* C28: every farmer profile belongs to an identity whose kind is farmer.
C28_FarmerProfileOfFarmer ==
  \A f \in DOMAIN farmer_profiles :
    /\ farmer_profiles[f].user_id \in DOMAIN profiles
    /\ profiles[farmer_profiles[f].user_id].user_type = "farmer"

\* C29: the actor_id of every inserted order event is the caller who inserted it, who
\* is the buyer or the owning farmer of the event's order.
C29_ActorIsCaller ==
  [][\A i \in DOMAIN order_events' \ DOMAIN order_events :
       /\ order_events'[i].actor_id = last'.caller
       /\ Party(order_events'[i].actor_id, orders[order_events'[i].order_id])]_vars

(* --------------------- claims on the catalog ---------------------------- *)
\* C21: a product is inserted, updated or deleted only by the identity owning its farmer
\* profile, and an update leaves it with a farmer profile of the caller: every step that
\* changes the products table is a product request of a caller who owns the farmer
\* profile of each product it touches, before and after.
C21_ProductsChangedByOwnerOnly ==
  [][\A p \in ProductIds :
       (\/ (p \in DOMAIN products) # (p \in DOMAIN products')
        \/ (p \in DOMAIN products /\ p \in DOMAIN products' /\ products'[p] # products[p]))
         => /\ last'.op \in {"insert_product", "update_product", "delete_product"}
            /\ last'.result = "ok"
            /\ p \in DOMAIN products => OwnsFarmer(last'.caller, products[p].farmer_id)
            /\ p \in DOMAIN products' => OwnsFarmer(last'.caller, products'[p].farmer_id)]_vars

\* the owner of a product has just tried to move it to another farmer profile and was
\* refused
C21_Witness ==
  /\ last.op = "update_product"
  /\ last.result = "error"
  /\ last.target \in DOMAIN products
  /\ OwnsFarmer(last.caller, products[last.target].farmer_id)

\* C22: a line item is inserted only by the buyer of its order, and while its order
\* exists no step deletes it or changes its quantity, price_per_unit or subtotal.
C22_LineItemsImmutable ==
  [][/\ \A i \in DOMAIN order_items' \ DOMAIN order_items :
          orders[order_items'[i].order_id].buyer_id = last'.caller
     /\ \A i \in DOMAIN order_items :
          order_items[i].order_id \in DOMAIN orders' =>
            /\ i \in DOMAIN order_items'
            /\ order_items'[i].quantity = order_items[i].quantity
            /\ order_items'[i].price_per_unit = order_items[i].price_per_unit
            /\ order_items'[i].subtotal = order_items[i].subtotal]_vars

(* ------------------- claims on the buyer's screens --------------------- *)
\* C25: submitReview reports success only if its review row was inserted.
C25_ThanksOnlyIfInserted ==
  \A s \in DOMAIN submits : submits[s].thanked => submits[s].inserted

\* the cart c has an entry for the product p
InCart(c, p) == \E i \in DOMAIN c : c[i].product_id = p

\* C30: the cart holds at most one entry per product and every quantity is at least 1;
\* adding a product that is not in the cart appends one entry with quantity 1, and adding
\* one that is in the cart increases its quantity by 1 and changes nothing else.
C30_OneEntryPerProduct ==
  [][\A u \in Users :
       /\ \A i, j \in DOMAIN cart'[u] :
            /\ cart'[u][i].quantity >= 1
            /\ i # j => cart'[u][i].product_id # cart'[u][j].product_id
       /\ cart'[u] # cart[u] =>
            \E p \in ProductIds :
              IF InCart(cart[u], p)
              THEN /\ Len(cart'[u]) = Len(cart[u])
                   /\ \A i \in DOMAIN cart[u] :
                        cart'[u][i] =
                          IF cart[u][i].product_id = p
                          THEN [product_id |-> p, farmer_id |-> cart[u][i].farmer_id,
                                quantity |-> cart[u][i].quantity + 1]
                          ELSE cart[u][i]
              ELSE /\ Len(cart'[u]) = Len(cart[u]) + 1
                   /\ \A i \in DOMAIN cart[u] : cart'[u][i] = cart[u][i]
                   /\ cart'[u][Len(cart'[u])].product_id = p
                   /\ cart'[u][Len(cart'[u])].quantity = 1]_vars

\* a cart holds two products, the first of them added again after the second
C30_Witness ==
  \E u \in Users :
    /\ Len(cart[u]) = 2
    /\ cart[u][1].quantity >= 2
    /\ cart[u][2].quantity = 1

====
